---- MODULE Spec2Model ----
(***************************************************************************)
(* Model of masbcpp's compute_ma.cpp: the shrinking-ball solver sb_point,  *)
(* the batch driver sb_points and the orchestration in main.               *)
(*                                                                         *)
(* Arithmetic.  Points and normals have integer coordinates; a radius is   *)
(* an exact rational, +infinity or NaN, so that compute_radius (a          *)
(* division), the guards on r and the convergence test are computed, not   *)
(* assumed.  A ball center is a point with a common denominator, or NaN.   *)
(* Array indices are 0-based as in the source.                             *)
(***************************************************************************)
EXTENDS Integers, Sequences, FiniteSets, TLC

VARIABLES
    \* ---- globals and inputs (compute_ma.cpp:52-59, 259-279)
    points,            \* coords / kd_tree->the_data : [0..N-1 -> Point]
    normals,           \* the VectorList normals, with what lies past its end once written there
    normals_carray,    \* rows of normals.npy : [0..numRows-1 -> Vector]
    initial_radius,
    nan_for_initr,
    denoise_preserve,  \* threshold angle in degrees, 0 = disabled
    denoise_planar,    \* threshold angle in degrees, 0 = disabled
    garbage,           \* what lies in memory past the end of a one-entry result vector
    \* ---- one call of sb_point (compute_ma.cpp:78-179)
    own,               \* index i of the input point in the point set
    p, n,              \* arguments of sb_point
    j, r, r_previous, c, qidx,
    pc,                \* "loop" | "done" | "crashed" | "idle"
    iters,             \* number of executions of the loop body so far
    stop,              \* the break that ended the loop, "none" while looping
    rcomp,             \* value compute_radius returned in the last iteration (Uninit: not called)
    oob,               \* result[1] was read although n_nearest returned one entry
    allSelf,           \* in every iteration so far the nearest point was p itself
    \* ---- main and sb_points (compute_ma.cpp:181-199, 259-328)
    mpc,               \* position of main
    numRows,           \* rows of normals.npy (normals_npy.shape[0])
    loaded,            \* rows of normals copied so far by the loop of line 271
    oobRow,            \* a row >= numRows was read from normals_carray or normals
    indexBuilt,        \* the kd-tree has been constructed
    inner,             \* argument of the running sb_points pass
    todo,              \* loop indices of the parallel for not yet handed to a thread
    wpc, wi, wp, wn, wres,  \* per thread: position, i, private p, private n, ma_result r
    ma_coords, ma_qidx,     \* output arrays of the running pass ("unset" before the write)
    writes,            \* per output slot: the loop indices of the iterations that stored to it
    saved              \* the passes whose outputs have been saved

solverVars == <<own, p, n, j, r, r_previous, c, qidx, pc, iters, stop, rcomp, oob, allSelf>>
configVars == <<points, normals, normals_carray, initial_radius, nan_for_initr,
                denoise_preserve, denoise_planar, garbage>>
mainVars == <<mpc, numRows, loaded, oobRow, indexBuilt, inner, todo,
              wpc, wi, wp, wn, wres, ma_coords, ma_qidx, writes, saved>>
vars == <<configVars, solverVars, mainVars>>

-----------------------------------------------------------------------------
(* Bounds of the model *)

MaxPoints == 2
MaxCoord == 2
NumWorkers == 2

(* Program constants *)

iteration_limit == 30
\* delta_convergance = 1E-5 = 1 / DeltaInverse
DeltaInverse == 100000

-----------------------------------------------------------------------------
(* Geometry primitives on integer vectors *)

Origin == <<0, 0, 0>>
Grid == {<<x, 0, z>> : x \in 0..MaxCoord, z \in (0 - MaxCoord)..MaxCoord}
UnitNormals == {<<0, 0, 1>>, <<0, 0, -1>>}
Radii == {1, 10}
PreserveAngles == {0, 55}
PlanarAngles == {0, 32}

Dot(u, v) == u[1] * v[1] + u[2] * v[2] + u[3] * v[3]
Sub(u, v) == <<u[1] - v[1], u[2] - v[2], u[3] - v[3]>>
Scale(u, k) == <<u[1] * k, u[2] * k, u[3] * k>>
Neg(u) == Scale(u, -1)
Mag2(u) == Dot(u, u)
Abs(x) == IF x < 0 THEN 0 - x ELSE x

RECURSIVE Gcd(_, _)
Gcd(a, b) == IF b = 0 THEN a ELSE Gcd(b, a % b)

(* Scalars: exact rationals in lowest terms with a positive denominator,   *)
(* +infinity (d / 0) and NaN (0 / 0).                                      *)
Fin(a, b) ==
    LET g == Gcd(Abs(a), Abs(b))
        s == IF b < 0 THEN -1 ELSE 1
    IN  [k |-> "fin", n |-> (s * a) \div g, d |-> (s * b) \div g]
Inf == [k |-> "inf"]
NaN == [k |-> "nan"]
Uninit == [k |-> "uninit"]
Zero == Fin(0, 1)

IsFin(x) == x.k = "fin"
Less(x, y) == IsFin(x) /\ IsFin(y) /\ x.n * y.d < y.n * x.d
Negative(x) == IsFin(x) /\ x.n < 0
\* x > y for a finite y: +infinity exceeds everything, NaN compares false
Greater(x, y) == x.k = "inf" \/ Less(y, x)

(* Points with rational coordinates: x / d componentwise, or the NaN point *)
nanPoint == [k |-> "nan"]
Pt(x, d) == [k |-> "pt", x |-> x, d |-> d]


\* p - n * r (compute_ma.cpp:84, 112, 135, 140, 158); NaN propagates
Center(pp, nn, rr) ==
    IF IsFin(rr) THEN Pt(Sub(Scale(pp, rr.d), Scale(nn, rr.n)), rr.d) ELSE nanPoint

\* squared distance from the center cc to the point x, scaled by cc.d^2
Dist2(cc, x) == Mag2(Sub(Scale(x, cc.d), cc.x))

\* compute_radius with q - p in place of p - q
compute_radiusFlipped(pp, nn, q) ==
    LET d2 == Mag2(Sub(q, pp))
        h == Dot(nn, Sub(q, pp))
    IN  IF d2 = 0 THEN NaN ELSE IF h = 0 THEN Inf ELSE Fin(d2, 2 * h)

\* compute_radius: d = |p-q|, cos_theta = n.(p-q)/d, result d/(2 cos_theta)
\* = |p-q|^2 / (2 n.(p-q)); 0/0 is NaN, d/0 is +infinity
compute_radius(pp, nn, q) ==
    LET d2 == Mag2(Sub(pp, q))
        h == Dot(nn, Sub(pp, q))
    IN  IF d2 = 0 THEN NaN ELSE IF h = 0 THEN Inf ELSE Fin(d2, 2 * h)

\* 1000 * cos^2 of the threshold angles used (20, 32 and 55 degrees); no
\* angle between lattice vectors of the model has exactly this cosine
Cos2Milli(deg) == CASE deg = 20 -> 883 [] deg = 32 -> 719 [] deg = 55 -> 329

\* acos(cos_angle(u, v)) < deg degrees, for 0 < deg < 90:
\* cos_angle(u, v) = u.v / (|u||v|) > cos(deg); 0/0 is NaN and compares false
AngleLess(u, v, deg) ==
    LET m == Mag2(u) * Mag2(v)
        dt == Dot(u, v)
    IN  m # 0 /\ dt > 0 /\ dt * dt * 1000 > Cos2Milli(deg) * m

\* separation_angle < deg, with separation_angle the angle between p - c_next
\* and q - c_next, c_next = p - n*r1.  Both vectors are scaled by the positive
\* factor r1.d / r1.n resp. r1.d, which leaves the angle unchanged.
SeparationLess(pp, nn, q, r1, deg) ==
    /\ IsFin(r1) /\ r1.n > 0
    /\ AngleLess(nn, Sub(Scale(q, r1.d), Sub(Scale(pp, r1.d), Scale(nn, r1.n))), deg)

\* r1 > Geometry::mag(q - p)
ExceedsMag(r1, q, pp) ==
    IsFin(r1) /\ r1.n > 0 /\ r1.n * r1.n > Mag2(Sub(q, pp)) * r1.d * r1.d

\* Math::abs(r_previous - r) < delta_convergance
Converged(rp, r1) ==
    IsFin(rp) /\ IsFin(r1)
    /\ Abs(rp.n * r1.d - r1.n * rp.d) * DeltaInverse < rp.d * r1.d

-----------------------------------------------------------------------------
(* The spatial index.  kd_tree->n_nearest(c, 2, result) with sort_results:  *)
(* the (at most) two points nearest to c, closest first.  The tree is      *)
(* fixed, so equal queries get equal answers: points at equal distance     *)
(* come in index order (every other fixed order is this one after          *)
(* renumbering the points, and Init draws every numbering).  Every          *)
(* comparison with a NaN center is false, so all points tie.                *)

NumPoints == Cardinality(DOMAIN points)
Key(cc, a) == IF cc.k = "nan" THEN 0 ELSE Dist2(cc, points[a])
Before(cc, a, b) ==
    \/ Key(cc, a) < Key(cc, b)
    \/ Key(cc, a) = Key(cc, b) /\ a < b
Nth(cc, m) ==
    CHOOSE a \in DOMAIN points :
        Cardinality({b \in DOMAIN points : Before(cc, b, a)}) = m
\* result[0], result[1] of the source are n_nearest(cc)[1], n_nearest(cc)[2]
n_nearest(cc) ==
    IF NumPoints = 1 THEN <<Nth(cc, 0)>> ELSE <<Nth(cc, 0), Nth(cc, 1)>>

-----------------------------------------------------------------------------
(* sb_point *)

InitialRadius == Fin(initial_radius, 1)

\* the state of a call before the first iteration (compute_ma.cpp:80-84)
Start(pp, nn) ==
    [c |-> Center(pp, nn, InitialRadius), r_previous |-> Zero, j |-> 0, qidx |-> -1]

\* c = nan_for_initr ? nanPoint : p - n * r, with r = initial_radius
CeilingCenter(pp, nn) ==
    IF nan_for_initr THEN nanPoint ELSE Center(pp, nn, InitialRadius)

\* q == p with r_previous == initial_radius (compute_ma.cpp:106, 109);
\* result is the answer of n_nearest for the current center
SelfMatch(pp, result) == points[result[1]] = pp
Finalizes(pp, st, result) == SelfMatch(pp, result) /\ st.r_previous = InitialRadius

\* result[1] is read (line 116) although the result holds a single entry:
\* an out-of-bounds read, undefined behaviour
ReadsPastEnd(pp, st, result) ==
    SelfMatch(pp, result) /\ ~Finalizes(pp, st, result) /\ Len(result) < 2

\* what an out-of-bounds read can yield: an index inside or outside the
\* point set, and any point for kd_tree->the_data[that index].  Nothing
\* writes that memory during a call, so every read of a call sees the same.
GarbageIdx == {0, MaxPoints}
Garbage == [idx : GarbageIdx, q : Grid]
NoGarbage == [idx |-> -1, q |-> Origin]

\* the wrong-side guard left out
NoReset(rc) == rc

\* if( r < 0 ) r = initial_radius  (compute_ma.cpp:129-130)
WrongSideReset(rc) == IF Negative(rc) THEN InitialRadius ELSE rc

\* the ceiling guard left out
CeilingGuardNever(rc) == FALSE

\* else if( r > initial_radius )  (compute_ma.cpp:132)
CeilingGuard(rc) == ~Negative(rc) /\ Greater(rc, InitialRadius)

\* the cap tested one iteration later
CapReachedLate(jj) == jj > iteration_limit + 1

\* if( j > iteration_limit )  (compute_ma.cpp:169)
CapReached(jj) == jj > iteration_limit

\* One execution of the loop body (compute_ma.cpp:94-175) from the loop
\* state st, with result the answer of n_nearest(c, 2, result) and g the
\* value an out-of-bounds read of result[1] yields.
LoopBody(pp, nn, st, g, result) ==
    LET self == SelfMatch(pp, result)
        second == self /\ ~Finalizes(pp, st, result)
        past == ReadsPastEnd(pp, st, result)
        qidx_next == IF second THEN (IF past THEN g.idx ELSE result[2]) ELSE result[1]
        q == IF second THEN (IF past THEN g.q ELSE points[result[2]]) ELSE points[result[1]]
        rc == compute_radius(pp, nn, q)
        r1 == WrongSideReset(rc)
        c_next == Center(pp, nn, r1)
        denoise == denoise_preserve # 0 \/ denoise_planar # 0
        preserve == /\ denoise /\ denoise_preserve # 0
                    /\ SeparationLess(pp, nn, q, r1, denoise_preserve)
                    /\ st.j > 0
                    /\ ExceedsMag(r1, q, pp)
        planar == /\ denoise /\ denoise_planar # 0
                  /\ SeparationLess(pp, nn, q, r1, denoise_planar)
                  /\ st.j = 0
        base == [stop |-> "none", c |-> st.c, r |-> r1, r_previous |-> st.r_previous,
                 j |-> st.j, qidx |-> st.qidx, rcomp |-> rc, past |-> past, self |-> self]
    IN  IF Finalizes(pp, st, result)
        THEN [base EXCEPT !.stop = "selfmatch", !.r = InitialRadius,
                          !.c = CeilingCenter(pp, nn), !.rcomp = Uninit]
        ELSE IF CeilingGuard(rc)
        THEN [base EXCEPT !.stop = "ceiling", !.r = InitialRadius,
                          !.c = CeilingCenter(pp, nn)]
        ELSE IF preserve
        THEN [base EXCEPT !.stop = "preserve", !.r = st.r_previous]
        ELSE IF planar
        THEN [base EXCEPT !.stop = "planar", !.r = InitialRadius,
                          !.c = CeilingCenter(pp, nn)]
        ELSE IF Converged(st.r_previous, r1)
        THEN [base EXCEPT !.stop = "converged"]
        ELSE IF CapReached(st.j)
        THEN [base EXCEPT !.stop = "cap"]
        ELSE [base EXCEPT !.r_previous = r1, !.c = c_next, !.qidx = qidx_next,
                          !.j = st.j + 1]

\* the loop body at st, querying the index once
Iteration(pp, nn, st, g) ==
    CHOOSE b \in {LoopBody(pp, nn, st, g, result) : result \in {n_nearest(st.c)}} : TRUE

\* the whole call, for the value g of its out-of-bounds reads
RECURSIVE RunLoop(_, _, _, _)
RunLoop(pp, nn, st, g) ==
    CHOOSE out \in
        {IF b.stop = "none"
         THEN RunLoop(pp, nn, [c |-> b.c, r_previous |-> b.r_previous,
                               j |-> b.j, qidx |-> b.qidx], g)
         ELSE [c |-> b.c, qidx |-> b.qidx] : b \in {Iteration(pp, nn, st, g)}} : TRUE
sb_point(pp, nn, g) == RunLoop(pp, nn, Start(pp, nn), g)

-----------------------------------------------------------------------------
(* Specification Spec: one call of sb_point, one loop iteration per step *)

IdleMain ==
    /\ mpc = "idle" /\ numRows = 0 /\ loaded = 0 /\ oobRow = FALSE
    /\ indexBuilt = FALSE /\ inner = TRUE /\ todo = {}
    /\ wpc = <<>> /\ wi = <<>> /\ wp = <<>> /\ wn = <<>> /\ wres = <<>>
    /\ ma_coords = <<>> /\ ma_qidx = <<>> /\ writes = <<>> /\ saved = {}

Init ==
    /\ \E N \in 1..MaxPoints :
         /\ points \in [0..(N - 1) -> Grid]
         /\ own \in 0..(N - 1)
         /\ garbage \in IF N = 1 THEN Garbage ELSE {NoGarbage}
    /\ points[own] = Origin
    /\ p = points[own]
    /\ n \in UnitNormals
    /\ normals = <<>> /\ normals_carray = <<>>
    /\ initial_radius \in Radii
    /\ nan_for_initr \in BOOLEAN
    /\ denoise_preserve \in PreserveAngles
    /\ denoise_planar \in PlanarAngles
    /\ j = 0 /\ r = Uninit /\ r_previous = Zero /\ qidx = -1
    /\ c = Center(p, n, InitialRadius)
    /\ pc = "loop" /\ iters = 0 /\ stop = "none" /\ rcomp = Uninit
    /\ oob = FALSE /\ allSelf = TRUE
    /\ IdleMain

Cur == [c |-> c, r_previous |-> r_previous, j |-> j, qidx |-> qidx]

\* the assignments of one iteration with outcome b
Apply(b) ==
    /\ c' = b.c /\ r' = b.r /\ r_previous' = b.r_previous
    /\ j' = b.j /\ qidx' = b.qidx
    /\ stop' = b.stop
    /\ pc' = IF b.stop = "none" THEN "loop" ELSE "done"
    /\ rcomp' = b.rcomp
    /\ oob' = (oob \/ b.past)
    /\ allSelf' = (allSelf /\ b.self)
    /\ iters' = iters + 1
    /\ UNCHANGED <<own, p, n, configVars, mainVars>>

\* q == p and r_previous == initial_radius (compute_ma.cpp:106-113)
SelfMatchFinalize ==
    /\ pc = "loop"
    /\ \E b \in {Iteration(p, n, Cur, garbage)} : b.stop = "selfmatch" /\ Apply(b)

\* r > initial_radius (compute_ma.cpp:132-137)
CeilingStop ==
    /\ pc = "loop"
    /\ \E b \in {Iteration(p, n, Cur, garbage)} : b.stop = "ceiling" /\ Apply(b)

\* compute_ma.cpp:148-154
DenoisePreserveStop ==
    /\ pc = "loop"
    /\ \E b \in {Iteration(p, n, Cur, garbage)} : b.stop = "preserve" /\ Apply(b)

\* compute_ma.cpp:155-161
DenoisePlanarStop ==
    /\ pc = "loop"
    /\ \E b \in {Iteration(p, n, Cur, garbage)} : b.stop = "planar" /\ Apply(b)

\* compute_ma.cpp:165-166
ConvergenceStop ==
    /\ pc = "loop"
    /\ \E b \in {Iteration(p, n, Cur, garbage)} : b.stop = "converged" /\ Apply(b)

\* compute_ma.cpp:169-170
IterationCapStop ==
    /\ pc = "loop"
    /\ \E b \in {Iteration(p, n, Cur, garbage)} : b.stop = "cap" /\ Apply(b)

\* compute_ma.cpp:172-175
Commit ==
    /\ pc = "loop"
    /\ \E b \in {Iteration(p, n, Cur, garbage)} : b.stop = "none" /\ Apply(b)

\* the out-of-bounds read of result[1] (or of the_data at the index read)
\* faults instead of yielding a value
Crash ==
    /\ pc = "loop"
    /\ ReadsPastEnd(p, Cur, n_nearest(c))
    /\ pc' = "crashed" /\ oob' = TRUE /\ iters' = iters + 1
    /\ UNCHANGED <<own, p, n, j, r, r_previous, c, qidx, stop, rcomp, allSelf,
                   configVars, mainVars>>

Next ==
    \/ SelfMatchFinalize
    \/ CeilingStop
    \/ DenoisePreserveStop
    \/ DenoisePlanarStop
    \/ ConvergenceStop
    \/ IterationCapStop
    \/ Commit
    \/ Crash

Spec == Init /\ [][Next]_vars

-----------------------------------------------------------------------------
(* Specification MainSpec: main loads the arrays, builds the index and runs *)
(* sb_points twice; the iterations of the parallel for of sb_points are     *)
(* executed by NumWorkers threads in any interleaving.                      *)

Threads == 1..NumWorkers
\* two point clouds, the second with a duplicated point
CloudA(i) == IF i = 0 THEN Origin ELSE <<i - 1, 0, i - 3>>
CloudB(i) == IF i < 2 THEN Origin ELSE CloudA(i - 1)
Clouds(N) == {[i \in 0..(N - 1) |-> CloudA(i)], [i \in 0..(N - 1) |-> CloudB(i)]}
\* what a read past the end of normals_carray can yield
GarbageNormals == {<<1, 0, 0>>, <<0, 0, -1>>}
Unset == [k |-> "unset"]

IdleSolver ==
    /\ own = 0 /\ p = Origin /\ n = <<0, 0, 1>>
    /\ j = 0 /\ r = Uninit /\ r_previous = Zero /\ c = nanPoint /\ qidx = -1
    /\ pc = "idle" /\ iters = 0 /\ stop = "none" /\ rcomp = Uninit
    /\ oob = FALSE /\ allSelf = TRUE

\* the rows of a normals.npy of m rows: all (0,0,1), or alternating in sign
NormalFiles(m) ==
    {[i \in 0..(m - 1) |-> <<0, 0, 1>>],
     [i \in 0..(m - 1) |-> IF i % 2 = 0 THEN <<0, 0, 1>> ELSE <<0, 0, -1>>]}

\* The state when main has parsed its arguments (compute_ma.cpp:205-257):
\* the globals are set, coords.npy holds the rows of points and normals.npy
\* holds numRows rows.  The denoise thresholds and the NaN switch have the
\* defaults of lines 211-215.
MainInit ==
    /\ \E N \in 1..MaxPoints : points \in Clouds(N)
    /\ numRows \in {m \in 0..MaxPoints : m >= NumPoints - 1 /\ m <= NumPoints + 1}
    /\ normals_carray \in NormalFiles(numRows)
    /\ normals = <<>>
    /\ initial_radius \in Radii
    /\ nan_for_initr = FALSE
    /\ denoise_preserve = 20 /\ denoise_planar = 32
    /\ garbage = NoGarbage
    /\ mpc = "load_coords" /\ loaded = 0 /\ oobRow = FALSE
    /\ indexBuilt = FALSE /\ inner = TRUE /\ todo = {}
    /\ wpc = [w \in Threads |-> "idle"]
    /\ wi = [w \in Threads |-> -1]
    /\ wp = [w \in Threads |-> Origin]
    /\ wn = [w \in Threads |-> Origin]
    /\ wres = [w \in Threads |-> Unset]
    /\ ma_coords = <<>> /\ ma_qidx = <<>> /\ writes = <<>> /\ saved = {}
    /\ IdleSolver

passVars == <<inner, todo, wpc, wi, wp, wn, wres, ma_coords, ma_qidx, writes>>
inputVars == <<points, normals_carray, initial_radius, nan_for_initr,
               denoise_preserve, denoise_planar, garbage>>

\* coords.npy is read into coords, num_points = shape[0] (compute_ma.cpp:259-266)
LoadCoords ==
    /\ mpc = "load_coords"
    /\ mpc' = "load_normals"
    /\ UNCHANGED <<normals, numRows, loaded, oobRow, indexBuilt, saved,
                   passVars, inputVars, solverVars>>

\* normals.npy is read, VectorList normals(shape[0]) (compute_ma.cpp:268-270);
\* the number of rows is not compared with num_points
LoadNormals ==
    /\ mpc = "load_normals"
    /\ normals' = [i \in 0..(numRows - 1) |-> Origin]
    /\ loaded' = 0
    /\ mpc' = "copy_normals"
    /\ UNCHANGED <<numRows, oobRow, indexBuilt, saved, passVars, inputVars, solverVars>>

\* one pass of for (i < num_points) normals[i] = Vector(&normals_carray[i*3])
\* (compute_ma.cpp:271) for a row the file holds
CopyNormalRow ==
    /\ mpc = "copy_normals"
    /\ loaded < NumPoints
    /\ loaded < numRows
    /\ normals' = [normals EXCEPT ![loaded] = normals_carray[loaded]]
    /\ loaded' = loaded + 1
    /\ UNCHANGED <<mpc, numRows, oobRow, indexBuilt, saved, passVars, inputVars, solverVars>>

\* the same pass for a row past the end of both arrays: undefined behaviour,
\* here the read yields some vector, which is written past the end of normals
CopyNormalRowPastEnd ==
    /\ mpc = "copy_normals"
    /\ loaded < NumPoints
    /\ loaded >= numRows
    /\ \E v \in GarbageNormals :
         normals' = [i \in 0..loaded |-> IF i = loaded THEN v ELSE normals[i]]
    /\ loaded' = loaded + 1
    /\ oobRow' = TRUE
    /\ UNCHANGED <<mpc, numRows, indexBuilt, saved, passVars, inputVars, solverVars>>

\* ... or the access faults
CopyNormalRowFault ==
    /\ mpc = "copy_normals"
    /\ loaded < NumPoints
    /\ loaded >= numRows
    /\ mpc' = "crashed"
    /\ oobRow' = TRUE
    /\ UNCHANGED <<normals, numRows, loaded, indexBuilt, saved, passVars,
                   inputVars, solverVars>>

\* kd_tree = new KDTree(coords, ...) (compute_ma.cpp:277-279)
BuildIndex ==
    /\ mpc = "copy_normals"
    /\ loaded = NumPoints
    /\ indexBuilt' = TRUE
    /\ mpc' = "alloc_in"
    /\ UNCHANGED <<normals, numRows, loaded, oobRow, saved, passVars,
                   inputVars, solverVars>>

\* the output arrays are allocated and sb_points is entered
\* (compute_ma.cpp:288-291 with inner = 1, 310-312 with inner = 0)
StartPass ==
    /\ mpc \in {"alloc_in", "alloc_out"}
    /\ inner' = (mpc = "alloc_in")
    /\ todo' = DOMAIN points
    /\ ma_coords' = [i \in DOMAIN points |-> Unset]
    /\ ma_qidx' = [i \in DOMAIN points |-> Unset]
    /\ writes' = [i \in DOMAIN points |-> <<>>]
    /\ mpc' = IF mpc = "alloc_in" THEN "pass_in" ELSE "pass_out"
    /\ UNCHANGED <<normals, numRows, loaded, oobRow, indexBuilt, saved,
                   wpc, wi, wp, wn, wres, inputVars, solverVars>>

Running == mpc \in {"pass_in", "pass_out"}

\* every iteration storing to the first slot
SlotFirst(i) == 0

\* the output slot of loop index i (compute_ma.cpp:195-196)
Slot(i) == i

\* a thread takes a loop index i no thread has taken, and reads p = points[i]
\* and n = normals[i] or -normals[i] into its private copies
\* (compute_ma.cpp:186-193)
Begin(w) ==
    /\ Running
    /\ wpc[w] = "idle"
    /\ \E i \in todo :
         /\ todo' = todo \ {i}
         /\ wi' = [wi EXCEPT ![w] = i]
         /\ wp' = [wp EXCEPT ![w] = points[i]]
         /\ wn' = [wn EXCEPT ![w] = IF inner THEN normals[i] ELSE Neg(normals[i])]
         /\ oobRow' = (oobRow \/ i >= numRows)
    /\ wpc' = [wpc EXCEPT ![w] = "call"]
    /\ UNCHANGED <<mpc, normals, numRows, loaded, indexBuilt, saved, inner, wres,
                   ma_coords, ma_qidx, writes, inputVars, solverVars>>

CallGarbage == IF NumPoints = 1 THEN Garbage ELSE {NoGarbage}

\* ma_result r = sb_point(p, n, kd_tree) (compute_ma.cpp:194)
Call(w) ==
    /\ Running
    /\ wpc[w] = "call"
    /\ \E g \in CallGarbage : wres' = [wres EXCEPT ![w] = sb_point(wp[w], wn[w], g)]
    /\ wpc' = [wpc EXCEPT ![w] = "store"]
    /\ UNCHANGED <<mpc, normals, numRows, loaded, oobRow, indexBuilt, saved, inner,
                   todo, wi, wp, wn, ma_coords, ma_qidx, writes, inputVars, solverVars>>

\* the out-of-bounds read inside sb_point faults
CallFault(w) ==
    /\ Running
    /\ wpc[w] = "call"
    /\ ReadsPastEnd(wp[w], Start(wp[w], wn[w]), n_nearest(Start(wp[w], wn[w]).c))
    /\ mpc' = "crashed"
    /\ UNCHANGED <<normals, numRows, loaded, oobRow, indexBuilt, saved, passVars,
                   inputVars, solverVars>>

\* ma_coords[i] = r.c; ma_qidx[i] = r.qidx (compute_ma.cpp:195-196); the
\* iteration ends, and with it the lifetime of r and of the values of i, p
\* and n (the next iteration of the thread assigns them before any use)
Store(w) ==
    /\ Running
    /\ wpc[w] = "store"
    /\ ma_coords' = [ma_coords EXCEPT ![Slot(wi[w])] = wres[w].c]
    /\ ma_qidx' = [ma_qidx EXCEPT ![Slot(wi[w])] = wres[w].qidx]
    /\ writes' = [writes EXCEPT ![Slot(wi[w])] = Append(@, wi[w])]
    /\ wres' = [wres EXCEPT ![w] = Unset]
    /\ wi' = [wi EXCEPT ![w] = -1]
    /\ wp' = [wp EXCEPT ![w] = Origin]
    /\ wn' = [wn EXCEPT ![w] = Origin]
    /\ wpc' = [wpc EXCEPT ![w] = "idle"]
    /\ UNCHANGED <<mpc, normals, numRows, loaded, oobRow, indexBuilt, saved, inner,
                   todo, inputVars, solverVars>>

\* the parallel for has ended (every index taken, every thread through);
\* sb_points returns and main saves the two arrays
\* (compute_ma.cpp:297-306, 318-327)
SavePass ==
    /\ Running
    /\ todo = {}
    /\ \A w \in Threads : wpc[w] = "idle"
    /\ saved' = saved \cup {inner}
    /\ mpc' = IF mpc = "pass_in" THEN "alloc_out" ELSE "exit"
    /\ UNCHANGED <<normals, numRows, loaded, oobRow, indexBuilt, passVars,
                   inputVars, solverVars>>

MainNext ==
    \/ LoadCoords
    \/ LoadNormals
    \/ CopyNormalRow
    \/ CopyNormalRowPastEnd
    \/ CopyNormalRowFault
    \/ BuildIndex
    \/ StartPass
    \/ \E w \in Threads : Begin(w)
    \/ \E w \in Threads : Call(w)
    \/ \E w \in Threads : CallFault(w)
    \/ \E w \in Threads : Store(w)
    \/ SavePass

MainSpec == MainInit /\ [][MainNext]_vars

-----------------------------------------------------------------------------
(* Properties of sb_point, checked under Spec *)

Returned == pc = "done"

\* C1 as stated: the loop body is executed at most 31 times (cap 30 plus one).
C1_AtMost31 == iters <= iteration_limit + 1

\* C1 amended: the loop body is executed at most 32 times (j = 0..31): the
\* loop is still running only while j <= 31, and the 32nd execution ends it.
C1_AtMost32 ==
    /\ iters <= iteration_limit + 2
    /\ pc = "loop" => (iters = j /\ j <= iteration_limit + 1)

C1_Witness == Returned /\ stop = "cap" /\ iters = iteration_limit + 2

\* C2: the returned center is the NaN point or p - n*rho with 0 < rho <=
\* initial_radius, whichever break ended the loop.
C2_RadiusInRange ==
    Returned /\ c # nanPoint =>
        LET rho == Dot(n, Sub(Scale(p, c.d), c.x))   \* rho * c.d, as |n| = 1
        IN  /\ c.d > 0
            /\ c.x = Sub(Scale(p, c.d), Scale(n, rho))
            /\ 0 < rho /\ rho <= initial_radius * c.d

C2_Witness ==
    /\ Returned /\ c # nanPoint /\ stop = "converged"
    /\ Dot(n, Sub(Scale(p, c.d), c.x)) < initial_radius * c.d

\* C3 as stated: the returned feature index is -1 or a valid index other than
\* the input point's own.
C3_FeatureIndex ==
    Returned => (qidx = -1 \/ (qidx \in DOMAIN points /\ qidx # own))

\* C4 as stated: with a single point the call ends in the self-match
\* finalize branch with the initial_radius fallback and never reads result[1].
C4_SinglePoint ==
    NumPoints = 1 =>
        /\ ~oob
        /\ pc # "crashed"
        /\ Returned => (stop = "selfmatch" /\ c = CeilingCenter(p, n))

Scenario5 ==
    /\ points = [i \in 0..1 |-> IF i = 0 THEN Origin ELSE <<0, 0, 1>>]
    /\ own = 0 /\ n = <<0, 0, 1>> /\ initial_radius = 10

C6_NanAtCeiling ==
    nan_for_initr /\ Returned =>
        /\ r = InitialRadius => c = nanPoint
        /\ c # Center(p, n, InitialRadius)

\* C7 as stated: if in every iteration the nearest point was p itself, the call
\* ends (it does not fault) with radius initial_radius and the ceiling result.
C7_Isolated ==
    allSelf /\ pc # "loop" =>
        /\ Returned
        /\ r = InitialRadius
        /\ c = CeilingCenter(p, n)

\* C10 as stated: an iteration whose computed radius is negative resets r to
\* initial_radius and does not end the loop.
C10_Original ==
    Negative(rcomp) => (r = InitialRadius /\ pc = "loop")

\* C10 amended: an iteration whose computed radius is negative resets r to
\* initial_radius and does not take the ceiling break; the denoise, convergence
\* and cap tests still run in it and may end the loop (denoise-preserve then
\* puts r back to r_previous); if none does, the next iteration starts from the
\* center p - n*initial_radius with r_previous = initial_radius.
C10_Amended ==
    Negative(rcomp) =>
        /\ stop \in {"none", "preserve", "planar", "converged", "cap"}
        /\ stop # "preserve" => r = InitialRadius
        /\ stop = "none" => /\ pc = "loop"
                            /\ r_previous = InitialRadius
                            /\ c = Center(p, n, InitialRadius)

C10_Witness == Negative(rcomp) /\ pc = "loop" /\ r_previous = InitialRadius

-----------------------------------------------------------------------------
(* Properties of main and sb_points, checked under MainSpec *)

PassEnded == mpc \in {"alloc_out", "exit"}

\* what the sequential loop of sb_points puts into slot i: the result of
\* sb_point for points[i] and the (negated) normals[i]; a set, since a call
\* that reads out of bounds has more than one possible result
Sequential(i) ==
    {sb_point(points[i], IF inner THEN normals[i] ELSE Neg(normals[i]), g) :
        g \in CallGarbage}

C8_Slots ==
    /\ Running \/ PassEnded =>
         \A i \in DOMAIN points :
            /\ Len(writes[i]) <= 1
            /\ \A k \in 1..Len(writes[i]) : writes[i][k] = i
    /\ PassEnded =>
         \A i \in DOMAIN points :
            /\ Len(writes[i]) = 1
            /\ [c |-> ma_coords[i], qidx |-> ma_qidx[i]] \in Sequential(i)

C8_InputsKept ==
    Running => UNCHANGED <<points, normals, normals_carray, indexBuilt, initial_radius,
                           nan_for_initr, denoise_preserve, denoise_planar>>

\* C8: in every interleaving of the iterations of sb_points over the threads,
\* each output slot i is written exactly once and only by the iteration for
\* point i, no step of the pass changes the point set, the normals, the index
\* or the configuration, and after the pass every slot holds what the
\* sequential loop puts there.
C8_ParallelPass == [](C8_Slots) /\ [][C8_InputsKept]_vars

\* both passes have ended over two points, each slot stored once, and some
\* point got a feature index
C8_Witness ==
    /\ mpc = "exit" /\ NumPoints >= 2
    /\ \A i \in DOMAIN points : writes[i] = <<i>>
    /\ \E i \in DOMAIN points : ma_qidx[i] \in DOMAIN points

\* C9 as stated: when normals.npy and coords.npy differ in their number of
\* rows the index is never built and no pass runs, and no normal is read at
\* a row past the end of the normals array.
C9_MismatchDetected ==
    numRows # NumPoints => (~indexBuilt /\ ~oobRow /\ saved = {})

=============================================================================
